---------------------------- MODULE Spec2Model ----------------------------
(***************************************************************************)
(* A model of the ingestion pipeline of load.py: normalize_cols,           *)
(* map_dataframe (schema mapper and row coercer), copy_df_to_postgres      *)
(* (bulk loader) and main, together with the read path row_to_dict of      *)
(* app_basic_auth.py.                                                      *)
(*                                                                         *)
(* A Python str is a sequence of one-character strings.  A cell is a       *)
(* record [k, s, n]: k is its kind, s its text (a str), n its number.      *)
(* Numbers are kept in tenths (35 is 3.5); a date is the number yyyymmdd.  *)
(***************************************************************************)
EXTENDS Integers, Sequences, FiniteSets, TLC

\* ------------------------------------------------------------------ bounds
MaxLen == 5
MaxHeaders == 3
MaxRows == 2

\* ----------------------------------------------------------------- strings
Range(f) == {f[i] : i \in DOMAIN f}

\* Python's `a in b` on two strings
IsIn(a, b) ==
    \E i \in 0..(Len(b) - Len(a)) : SubSeq(b, i + 1, i + Len(a)) = a

UpperAZ ==
    <<"A", "B", "C", "D", "E", "F", "G", "H", "I", "J", "K", "L", "M",
      "N", "O", "P", "Q", "R", "S", "T", "U", "V", "W", "X", "Y", "Z">>

LowerAZ ==
    <<"a", "b", "c", "d", "e", "f", "g", "h", "i", "j", "k", "l", "m",
      "n", "o", "p", "q", "r", "s", "t", "u", "v", "w", "x", "y", "z">>

\* the characters str.strip() and str.split() treat as whitespace
IsSpace(ch) == ch \in {" ", "\t", "\n", "\r"}

LowerChar(ch) ==
    IF \E i \in 1..26 : UpperAZ[i] = ch
    THEN LowerAZ[CHOOSE i \in 1..26 : UpperAZ[i] = ch]
    ELSE ch

\* str.lower()
Lower(s) == [i \in 1..Len(s) |-> LowerChar(s[i])]

RECURSIVE LStrip(_)
LStrip(s) ==
    IF s # <<>> /\ IsSpace(Head(s)) THEN LStrip(Tail(s)) ELSE s

RECURSIVE RStrip(_)
RStrip(s) ==
    IF s # <<>> /\ IsSpace(s[Len(s)]) THEN RStrip(SubSeq(s, 1, Len(s) - 1)) ELSE s

\* str.strip()
Strip(s) == RStrip(LStrip(s))

\* str.split(): the maximal runs of non-whitespace characters, in order
RECURSIVE SplitWs(_, _, _)
SplitWs(s, word, acc) ==
    IF s = <<>>
    THEN IF word = <<>> THEN acc ELSE Append(acc, word)
    ELSE IF IsSpace(Head(s))
         THEN SplitWs(Tail(s), <<>>, IF word = <<>> THEN acc ELSE Append(acc, word))
         ELSE SplitWs(Tail(s), Append(word, Head(s)), acc)

\* " ".join(words)
RECURSIVE JoinSp(_)
JoinSp(words) ==
    IF words = <<>> THEN <<>>
    ELSE IF Len(words) = 1 THEN words[1]
    ELSE words[1] \o <<" ">> \o JoinSp(Tail(words))

\* a faulty variant of ReplaceSp: str.replace(" ", "_", 1), only the first space
RECURSIVE ReplaceFirstSp(_)
ReplaceFirstSp(s) ==
    IF s = <<>> THEN <<>>
    ELSE IF Head(s) = " " THEN <<"_">> \o Tail(s)
    ELSE <<Head(s)>> \o ReplaceFirstSp(Tail(s))

\* str.replace(" ", "_")
ReplaceSp(s) == [i \in 1..Len(s) |-> IF s[i] = " " THEN "_" ELSE s[i]]

\* the body of the loop of normalize_cols, for one label
NormalizeOne(c) == ReplaceSp(Lower(JoinSp(SplitWs(Strip(c), <<>>, <<>>))))

normalize_cols(cols) == [i \in 1..Len(cols) |-> NormalizeOne(cols[i])]

\* ------------------------------------------------------------ the schema
TARGET_COLS ==
    << <<"o", "u", "t", "l", "e", "t">>,
       <<"d", "a", "t", "e">>,
       <<"d", "a", "y">>,
       <<"g", "u", "e", "s", "t", "_", "c", "o", "u", "n", "t">>,
       <<"c", "a", "t", "e", "g", "o", "r", "y">>,
       <<"q", "u", "a", "n", "t", "i", "t", "y">>,
       <<"c", "o", "s", "t", "_", "p", "r", "i", "c", "e">>,
       <<"s", "e", "l", "l", "i", "n", "g", "_", "p", "r", "i", "c", "e">>,
       <<"t", "o", "t", "a", "l", "_", "s", "a", "l", "e", "s">>,
       <<"t", "o", "t", "a", "l", "_", "c", "o", "s", "t", "_", "p", "r", "i", "c", "e">>,
       <<"p", "r", "o", "f", "i", "t">> >>

NCols == Len(TARGET_COLS)

\* the columns each coercion of map_dataframe loops over, by position
DateCols == {2}
IntCols == {4, 6}
DecCols == {7, 8, 9, 10, 11}
TextCols == {1, 3, 5}

\* ------------------------------------------------------------ the mapper
\* tgt.split("_")[0]
SplitFirst(t) ==
    IF "_" \in Range(t)
    THEN SubSeq(t, 1, (CHOOSE i \in 1..Len(t) :
                          t[i] = "_" /\ \A j \in 1..(i - 1) : t[j] # "_") - 1)
    ELSE t

\* tgt.split("_")[-1]
SplitLast(t) ==
    IF "_" \in Range(t)
    THEN SubSeq(t, (CHOOSE i \in 1..Len(t) :
                       t[i] = "_" /\ \A j \in (i + 1)..Len(t) : t[j] # "_") + 1, Len(t))
    ELSE t

\* a faulty variant of ExactMatch: the exact-match test is skipped
NoExactMatch(tgt, cols) == FALSE

\* `tgt in df.columns`
ExactMatch(tgt, cols) == tgt \in Range(cols)

\* the condition of the approximate match
ApproxMatch(tgt, c) ==
    \/ IsIn(tgt, c)
    \/ IsIn(c, tgt)
    \/ IsIn(SplitFirst(tgt), c)
    \/ IsIn(SplitLast(tgt), c)

NotFound == [found |-> FALSE, c |-> <<>>]

\* a faulty variant of ScanFrom: the break is missing, the last match stands
RECURSIVE ScanFromNoBreak(_, _, _)
ScanFromNoBreak(tgt, cols, j) ==
    IF j > Len(cols) THEN NotFound
    ELSE LET rest == ScanFromNoBreak(tgt, cols, j + 1)
         IN IF rest.found THEN rest
            ELSE IF ApproxMatch(tgt, cols[j]) THEN [found |-> TRUE, c |-> cols[j]]
            ELSE NotFound

\* `for c in df.columns: if ...: col_map[tgt] = c; break`, from position j on
RECURSIVE ScanFrom(_, _, _)
ScanFrom(tgt, cols, j) ==
    IF j > Len(cols) THEN NotFound
    ELSE IF ApproxMatch(tgt, cols[j]) THEN [found |-> TRUE, c |-> cols[j]]
    ELSE ScanFrom(tgt, cols, j + 1)

\* one iteration of `for tgt in TARGET_COLS`: what col_map gets for tgt
MapOne(tgt, cols) ==
    IF ExactMatch(tgt, cols) THEN [found |-> TRUE, c |-> tgt]
    ELSE ScanFrom(tgt, cols, 1)

\* col_map[t] = c
Put(m, t, c) == [x \in DOMAIN m \cup {t} |-> IF x = t THEN c ELSE m[x]]

EmptyMap == [x \in {} |-> <<>>]

\* ------------------------------------------------------------------ cells
\* a missing cell as read_excel gives it (NaN), and the scalar pd.NA
NullCell == [k |-> "nan", s |-> <<>>, n |-> 0]
NACell == [k |-> "NA", s |-> <<>>, n |-> 0]
StrCell(s) == [k |-> "str", s |-> s, n |-> 0]
NumCell(n) == [k |-> "num", s |-> <<>>, n |-> n]


AbsentCell == [k |-> "absent", s |-> <<>>, n |-> 0]
TextCell(s) == [k |-> "text", s |-> s, n |-> 0]
IntCell(n) == [k |-> "int", s |-> <<>>, n |-> n]
DecCell(n) == [k |-> "dec", s |-> <<>>, n |-> n]
DateCell(n) == [k |-> "date", s |-> <<>>, n |-> n]

\* ------------------------------------------------- building the output frame
EmptyFrame == [n |-> 0, cols |-> <<>>]

Fill(cell, n) == [i \in 1..n |-> cell]

\* df[src] when the label src is unique: the cells of that column, by row
ColumnOf(src, cols, rws) ==
    LET j == CHOOSE x \in 1..Len(cols) : cols[x] = src
    IN [i \in 1..Len(rws) |-> rws[i][j]]

\* the number of columns of df that carry the label src
LabelCount(src, cols) == Cardinality({x \in 1..Len(cols) : cols[x] = src})

\* out[tgt] = df[src]: a frame with no index takes the index of the first
\* non-empty column assigned to it, and the columns it has are filled with NaN
SetItemSeries(frame, col) ==
    IF frame.n = 0 /\ Len(col) > 0
    THEN [n |-> Len(col),
          cols |-> Append([i \in 1..Len(frame.cols) |-> Fill(NullCell, Len(col))], col)]
    ELSE [n |-> frame.n, cols |-> Append(frame.cols, col)]

\* out[tgt] = pd.NA: the scalar is broadcast over the index the frame has
SetItemScalar(frame) ==
    [n |-> frame.n, cols |-> Append(frame.cols, Fill(NACell, frame.n))]

\* `for tgt in TARGET_COLS: ...` of the output frame, from target k on;
\* df[src] is a DataFrame when the label src is duplicated, and assigning it
\* to a single column raises ValueError
RECURSIVE BuildFrom(_, _, _, _, _)
BuildFrom(k, frame, m, cols, rws) ==
    IF k > NCols THEN [raised |-> FALSE, frame |-> frame]
    ELSE LET tgt == TARGET_COLS[k] IN
         IF tgt \in DOMAIN m
         THEN IF LabelCount(m[tgt], cols) > 1
              THEN [raised |-> TRUE, frame |-> frame]
              ELSE BuildFrom(k + 1, SetItemSeries(frame, ColumnOf(m[tgt], cols, rws)),
                             m, cols, rws)
         ELSE BuildFrom(k + 1, SetItemScalar(frame), m, cols, rws)

\* --------------------------------------------------------------- coercion
Digits == <<"0", "1", "2", "3", "4", "5", "6", "7", "8", "9">>

IsDigit(ch) == ch \in Range(Digits)

DigitVal(ch) == (CHOOSE i \in 1..10 : Digits[i] = ch) - 1

AllDigits(s) == s # <<>> /\ \A i \in 1..Len(s) : IsDigit(s[i])

\* the value of a string of digits
RECURSIVE ParseNat(_)
ParseNat(s) ==
    IF s = <<>> THEN 0
    ELSE 10 * ParseNat(SubSeq(s, 1, Len(s) - 1)) + DigitVal(s[Len(s)])

IsLeap(y) == (y % 4 = 0 /\ y % 100 # 0) \/ y % 400 = 0

DaysIn(m, y) ==
    IF m = 2 THEN (IF IsLeap(y) THEN 29 ELSE 28)
    ELSE IF m \in {4, 6, 9, 11} THEN 30 ELSE 31

ValidDate(y, m, d) == y >= 1 /\ m \in 1..12 /\ d \in 1..DaysIn(m, y)

\* pd.to_datetime(dayfirst=True, errors="coerce") then .dt.date, of one cell:
\* a DD-MM-YYYY string of a real calendar day is that day, anything else of
\* the modelled inputs (missing, free text, an impossible day) is NaT
ToDate(cell) ==
    IF /\ cell.k = "str"
       /\ Len(cell.s) = 10
       /\ cell.s[3] = "-" /\ cell.s[6] = "-"
       /\ AllDigits(SubSeq(cell.s, 1, 2))
       /\ AllDigits(SubSeq(cell.s, 4, 5))
       /\ AllDigits(SubSeq(cell.s, 7, 10))
    THEN LET d == ParseNat(SubSeq(cell.s, 1, 2))
             m == ParseNat(SubSeq(cell.s, 4, 5))
             y == ParseNat(SubSeq(cell.s, 7, 10))
         IN IF ValidDate(y, m, d) THEN DateCell(y * 10000 + m * 100 + d) ELSE AbsentCell
    ELSE AbsentCell

\* pd.to_numeric(errors="coerce") of one cell, in tenths: a number is itself,
\* a string of digits with at most one decimal is its value, anything else of
\* the modelled inputs (missing, blank, free text) is NaN
ToNumeric(cell) ==
    IF cell.k = "num" THEN DecCell(cell.n)
    ELSE IF cell.k = "str" /\ AllDigits(cell.s) THEN DecCell(10 * ParseNat(cell.s))
    ELSE IF /\ cell.k = "str"
            /\ Len(cell.s) >= 3
            /\ cell.s[Len(cell.s) - 1] = "."
            /\ AllDigits(SubSeq(cell.s, 1, Len(cell.s) - 2))
            /\ IsDigit(cell.s[Len(cell.s)])
    THEN DecCell(10 * ParseNat(SubSeq(cell.s, 1, Len(cell.s) - 2))
                 + DigitVal(cell.s[Len(cell.s)]))
    ELSE AbsentCell

\* .astype("Int64") raises TypeError on a float that is not a whole number
IntCastRaises(col) ==
    \E i \in 1..Len(col) : ToNumeric(col[i]).k = "dec" /\ ToNumeric(col[i]).n % 10 # 0

\* pd.to_numeric(errors="coerce").astype("Int64") of one cell of a column
\* that casts
ToInt64(cell) ==
    LET v == ToNumeric(cell) IN IF v.k = "dec" THEN IntCell(v.n \div 10) ELSE AbsentCell

NanText == <<"n", "a", "n">>
NAText == <<"<", "N", "A", ">">>

\* .astype(str) of one cell: str(nan) is "nan" and str(pd.NA) is "<NA>"
AsTypeStr(cell) ==
    IF cell.k = "nan" THEN NanText
    ELSE IF cell.k = "NA" THEN NAText
    ELSE cell.s

\* .astype(str).str.strip().replace({"nan": pd.NA}) of one cell
CleanTextCell(cell) ==
    LET s == Strip(AsTypeStr(cell)) IN IF s = NanText THEN AbsentCell ELSE TextCell(s)

\* out[c] = ... for the columns js of the frame, cell by cell
DatesOf(frame) ==
    [frame EXCEPT !.cols = [j \in 1..Len(@) |->
        IF j \in DateCols THEN [i \in 1..Len(@[j]) |-> ToDate(@[j][i])] ELSE @[j]]]

IntsOf(frame) ==
    [frame EXCEPT !.cols = [j \in 1..Len(@) |->
        IF j \in IntCols THEN [i \in 1..Len(@[j]) |-> ToInt64(@[j][i])] ELSE @[j]]]

DecimalsOf(frame) ==
    [frame EXCEPT !.cols = [j \in 1..Len(@) |->
        IF j \in DecCols THEN [i \in 1..Len(@[j]) |-> ToNumeric(@[j][i])] ELSE @[j]]]

TextsOf(frame) ==
    [frame EXCEPT !.cols = [j \in 1..Len(@) |->
        IF j \in TextCols THEN [i \in 1..Len(@[j]) |-> CleanTextCell(@[j][i])] ELSE @[j]]]

\* ------------------------------------------------------------- the CSV
RECURSIVE NatStr(_)
NatStr(v) ==
    IF v < 10 THEN <<Digits[v + 1]>> ELSE NatStr(v \div 10) \o <<Digits[(v % 10) + 1]>>

RECURSIVE Pow10(_)
Pow10(e) == IF e = 0 THEN 1 ELSE 10 * Pow10(e - 1)

\* v in w digits, zero padded
Pad(v, w) == [i \in 1..w |-> Digits[((v \div Pow10(w - i)) % 10) + 1]]

\* date.isoformat(), also what to_csv writes for a date
IsoFormat(n) ==
    Pad(n \div 10000, 4) \o <<"-">> \o Pad((n \div 100) % 100, 2) \o <<"-">> \o Pad(n % 100, 2)

\* repr of a float, in tenths
FloatStr(n) == NatStr(n \div 10) \o <<".">> \o <<Digits[(n % 10) + 1]>>

\* to_numeric gives an int64 column when every cell is a whole number
IsIntColumn(col) == \A i \in 1..Len(col) : col[i].k = "dec" /\ col[i].n % 10 = 0

\* the csv writer quotes a field that holds a delimiter, a quote or a line end
NeedsQuote(s) == \E i \in 1..Len(s) : s[i] \in {",", "\"", "\n", "\r"}

RECURSIVE DoubleQuotes(_)
DoubleQuotes(s) ==
    IF s = <<>> THEN <<>>
    ELSE (IF Head(s) = "\"" THEN <<"\"", "\"">> ELSE <<Head(s)>>) \o DoubleQuotes(Tail(s))

\* one field of to_csv (QUOTE_MINIMAL, na_rep=""), of a cell of column col
CsvField(cell, col) ==
    IF cell.k = "text"
    THEN IF NeedsQuote(cell.s) THEN <<"\"">> \o DoubleQuotes(cell.s) \o <<"\"">> ELSE cell.s
    ELSE IF cell.k = "int" THEN NatStr(cell.n)
    ELSE IF cell.k = "dec"
    THEN IF IsIntColumn(col) THEN NatStr(cell.n \div 10) ELSE FloatStr(cell.n)
    ELSE IF cell.k = "date" THEN IsoFormat(cell.n)
    ELSE <<>>

RECURSIVE JoinComma(_)
JoinComma(fields) ==
    IF fields = <<>> THEN <<>>
    ELSE IF Len(fields) = 1 THEN fields[1]
    ELSE fields[1] \o <<",">> \o JoinComma(Tail(fields))

\* df.to_csv(buf, index=False, header=True): the header line, then a line a row
ToCsvLines(frame) ==
    <<JoinComma(TARGET_COLS)>> \o
    [i \in 1..frame.n |->
        JoinComma([j \in 1..Len(frame.cols) |-> CsvField(frame.cols[j][i], frame.cols[j])])]

\* the fields of one line as COPY ... WITH CSV reads it: q tells whether the
\* field was quoted
RECURSIVE ParseCsv(_, _, _, _, _, _)
ParseCsv(line, i, cur, q, inq, acc) ==
    IF i > Len(line) THEN Append(acc, [q |-> q, s |-> cur])
    ELSE IF inq
    THEN IF line[i] = "\""
         THEN IF i < Len(line) /\ line[i + 1] = "\""
              THEN ParseCsv(line, i + 2, Append(cur, "\""), q, TRUE, acc)
              ELSE ParseCsv(line, i + 1, cur, q, FALSE, acc)
         ELSE ParseCsv(line, i + 1, Append(cur, line[i]), q, TRUE, acc)
    ELSE IF line[i] = ","
    THEN ParseCsv(line, i + 1, <<>>, FALSE, FALSE, Append(acc, [q |-> q, s |-> cur]))
    ELSE IF line[i] = "\"" THEN ParseCsv(line, i + 1, cur, TRUE, TRUE, acc)
    ELSE ParseCsv(line, i + 1, Append(cur, line[i]), q, FALSE, acc)

\* ------------------------------------------------------------- the store
DbNull == [k |-> "null", s |-> <<>>, n |-> 0]
DbError == [k |-> "error", s |-> <<>>, n |-> 0]
DbText(s) == [k |-> "text", s |-> s, n |-> 0]
DbInt(n) == [k |-> "int", s |-> <<>>, n |-> n]
DbNumeric(n) == [k |-> "numeric", s |-> <<>>, n |-> n]
DbDate(n) == [k |-> "date", s |-> <<>>, n |-> n]

\* the input function of the type of column j of trp_table, on a field that
\* is not null
DbInput(j, s) ==
    IF j \in TextCols THEN DbText(s)
    ELSE IF j \in IntCols THEN (IF AllDigits(s) THEN DbInt(ParseNat(s)) ELSE DbError)
    ELSE IF j \in DecCols
    THEN IF AllDigits(s) THEN DbNumeric(10 * ParseNat(s))
         ELSE IF /\ Len(s) >= 3
                 /\ s[Len(s) - 1] = "."
                 /\ AllDigits(SubSeq(s, 1, Len(s) - 2))
                 /\ IsDigit(s[Len(s)])
         THEN DbNumeric(10 * ParseNat(SubSeq(s, 1, Len(s) - 2)) + DigitVal(s[Len(s)]))
         ELSE DbError
    ELSE IF /\ Len(s) = 10
            /\ s[5] = "-" /\ s[8] = "-"
            /\ AllDigits(SubSeq(s, 1, 4))
            /\ AllDigits(SubSeq(s, 6, 7))
            /\ AllDigits(SubSeq(s, 9, 10))
            /\ ValidDate(ParseNat(SubSeq(s, 1, 4)), ParseNat(SubSeq(s, 6, 7)),
                         ParseNat(SubSeq(s, 9, 10)))
    THEN DbDate(ParseNat(SubSeq(s, 1, 4)) * 10000 + ParseNat(SubSeq(s, 6, 7)) * 100
                + ParseNat(SubSeq(s, 9, 10)))
    ELSE DbError

\* one data line as COPY table(cols) FROM STDIN WITH CSV stores it: in CSV
\* format the null string is the empty string not quoted
CopyRow(line) ==
    LET f == ParseCsv(line, 1, <<>>, FALSE, FALSE, <<>>)
    IN IF Len(f) # NCols THEN <<DbError>>
       ELSE [j \in 1..NCols |->
               IF f[j].s = <<>> /\ ~f[j].q THEN DbNull ELSE DbInput(j, f[j].s)]

RowFails(r) == \E j \in 1..Len(r) : r[j].k = "error"

\* the rows of the payload, the header line skipped (CSV HEADER)
CopyRows(lines) == [i \in 1..(Len(lines) - 1) |-> CopyRow(lines[i + 1])]

\* the number of rows COPY gets through: all of them, or those before the
\* first row the store rejects
Loadable(rws) ==
    IF \E i \in 1..Len(rws) : RowFails(rws[i])
    THEN (CHOOSE i \in 1..Len(rws) :
              RowFails(rws[i]) /\ \A x \in 1..(i - 1) : ~RowFails(rws[x])) - 1
    ELSE Len(rws)

Min(a, b) == IF a < b THEN a ELSE b

\* the rows the table holds before the run (the id column left out)
ExistingRows ==
    << <<DbText(<<"o", "l", "d">>), DbDate(20240101), DbNull, DbInt(2), DbNull, DbInt(1),
         DbNumeric(15), DbNumeric(20), DbNumeric(20), DbNumeric(15), DbNumeric(5)>> >>

\* row_to_dict, of one value
ToDictValue(v) ==
    IF v.k = "date" THEN [k |-> "text", s |-> IsoFormat(v.n), n |-> 0]
    ELSE IF v.k = "numeric" THEN [k |-> "float", s |-> <<>>, n |-> v.n]
    ELSE v

row_to_dict(row) == [j \in 1..Len(row) |-> ToDictValue(row[j])]

\* ------------------------------------------------------------------ state
VARIABLES pc, headers, rows, columns, col_map, ti, out, err, conn, buf, tx,
          table, committed, readback

vars == <<pc, headers, rows, columns, col_map, ti, out, err, conn, buf, tx,
          table, committed, readback>>

\* what main starts from, whatever the sheet read
Start(h, r) ==
    /\ pc = "normalize"
    /\ headers = h
    /\ rows = r
    /\ columns = <<>>
    /\ col_map = EmptyMap
    /\ ti = 1
    /\ out = EmptyFrame
    /\ err = "none"
    /\ conn = "none"
    /\ buf = <<>>
    /\ tx = <<>>
    /\ table = ExistingRows
    /\ committed = FALSE
    /\ readback = <<>>

NormChars == {"a", "B", " ", "_", "\t"}

StringsUpTo(n) == UNION {[1..k -> NormChars] : k \in 0..n}

InitNorm ==
    \E s \in StringsUpTo(MaxLen) : Start(<<s>>, << <<NullCell>> >>)

\* the header cells of the sheets of the second family of inputs; read_excel
\* keeps the labels of a sheet distinct
HeaderPool ==
    { <<"O", "u", "t", "l", "e", "t">>,
      <<"D", "a", "t", "e">>,
      <<"Q", "t", "y">>,
      <<"p", "r", "i", "c", "e">>,
      <<"O", "u", "t", "l", "e", "t", " ", "N", "a", "m", "e">>,
      <<"c", "o", "s", "t", "_", "p", "r", "i", "c", "e">>,
      <<"U", "n", "i", "t", " ", "P", "r", "i", "c", "e">>,
      <<" ", "o", "u", "t", "l", "e", "t", " ">>,
      <<" ", " ">> }

DistinctSeqs(S, n) ==
    {q \in UNION {[1..k -> S] : k \in 0..n} :
        \A i, j \in 1..Len(q) : i # j => q[i] # q[j]}

FreeText == StrCell(<<"a", "b", "c">>)

InitMap ==
    \E h \in DistinctSeqs(HeaderPool, MaxHeaders), nr \in 0..MaxRows :
        /\ h = <<>> => nr = 0
        /\ Start(h, [i \in 1..nr |-> [j \in 1..Len(h) |-> FreeText]])

\* the sheets of the third family of inputs: one column of each type family
LoadHeaders ==
    << <<"o", "u", "t", "l", "e", "t">>,
       <<"d", "a", "t", "e">>,
       <<"g", "u", "e", "s", "t", "_", "c", "o", "u", "n", "t">>,
       <<"c", "o", "s", "t", "_", "p", "r", "i", "c", "e">> >>

DayFirst == StrCell(<<"0", "5", "-", "0", "3", "-", "2", "0", "2", "4">>)
NoSuchDay == StrCell(<<"3", "1", "-", "0", "2", "-", "2", "0", "2", "4">>)
Blank == StrCell(<<" ", " ">>)

RowPool ==
    { <<FreeText, DayFirst, NumCell(70), NumCell(35)>>,
      <<Blank, NullCell, StrCell(<<"7">>), StrCell(<<"3", ".", "5">>)>>,
      <<NullCell, FreeText, NullCell, NullCell>>,
      <<StrCell(<<"n", "a", "n">>), NoSuchDay, FreeText, Blank>>,
      <<StrCell(<<"a", ",", "b">>), DayFirst, NumCell(35), NumCell(70)>>,
      <<StrCell(<<" ", "x", "\"", "y", "\"", " ">>), DayFirst, Blank, StrCell(<<"1", "2">>)>> }

InitLoad ==
    \E r \in UNION {[1..k -> RowPool] : k \in 0..MaxRows} : Start(LoadHeaders, r)

\* df.columns = normalize_cols(df.columns)
NormalizeCols ==
    /\ pc = "normalize"
    /\ columns' = normalize_cols(headers)
    /\ col_map' = EmptyMap
    /\ ti' = 1
    /\ pc' = "map"
    /\ UNCHANGED <<headers, rows, out, err, conn, buf, tx, table, committed, readback>>

\* a faulty variant of MapTarget: a header another target took is not a candidate
MapTargetNoReuse ==
    /\ pc = "map"
    /\ LET tgt == TARGET_COLS[ti]
           free == SelectSeq(columns, LAMBDA c : c \notin Range(col_map))
           r == MapOne(tgt, free)
       IN col_map' = IF r.found THEN Put(col_map, tgt, r.c) ELSE col_map
    /\ ti' = IF ti = NCols THEN 1 ELSE ti + 1
    /\ pc' = IF ti = NCols THEN "build" ELSE "map"
    /\ UNCHANGED <<headers, rows, columns, out, err, conn, buf, tx, table, committed, readback>>

\* one iteration of `for tgt in TARGET_COLS` of the mapper
MapTarget ==
    /\ pc = "map"
    /\ LET tgt == TARGET_COLS[ti]
           r == MapOne(tgt, columns)
       IN col_map' = IF r.found THEN Put(col_map, tgt, r.c) ELSE col_map
    /\ ti' = IF ti = NCols THEN 1 ELSE ti + 1
    /\ pc' = IF ti = NCols THEN "build" ELSE "map"
    /\ UNCHANGED <<headers, rows, columns, out, err, conn, buf, tx, table, committed, readback>>

Raise(e) ==
    /\ err' = e
    /\ pc' = "done"

\* the output frame, in target order
BuildOut ==
    /\ pc = "build"
    /\ LET b == BuildFrom(1, EmptyFrame, col_map, columns, rows)
       IN IF b.raised
          THEN /\ Raise("ValueError")
               /\ out' = out
          ELSE /\ out' = b.frame
               /\ pc' = "dates"
               /\ err' = err
    /\ UNCHANGED <<headers, rows, columns, col_map, ti, conn, buf, tx, table, committed,
                   readback>>

\* out["date"] = pd.to_datetime(out["date"], dayfirst=True, errors="coerce").dt.date
ParseDates ==
    /\ pc = "dates"
    /\ out' = DatesOf(out)
    /\ pc' = "ints"
    /\ UNCHANGED <<headers, rows, columns, col_map, ti, err, conn, buf, tx, table,
                   committed, readback>>

\* for c in ["guest_count", "quantity"]: ... .astype("Int64")
ToInts ==
    /\ pc = "ints"
    /\ IF \E j \in IntCols : IntCastRaises(out.cols[j])
       THEN /\ Raise("TypeError")
            /\ out' = out
       ELSE /\ out' = IntsOf(out)
            /\ pc' = "decimals"
            /\ err' = err
    /\ UNCHANGED <<headers, rows, columns, col_map, ti, conn, buf, tx, table, committed,
                   readback>>

\* for c in ["cost_price", ...]: out[c] = pd.to_numeric(out[c], errors="coerce")
ToDecimals ==
    /\ pc = "decimals"
    /\ out' = DecimalsOf(out)
    /\ pc' = "text"
    /\ UNCHANGED <<headers, rows, columns, col_map, ti, err, conn, buf, tx, table,
                   committed, readback>>

\* for c in ["outlet", "day", "category"]: ..., and map_dataframe returns
CleanText ==
    /\ pc = "text"
    /\ out' = TextsOf(out)
    /\ pc' = "get_conn"
    /\ UNCHANGED <<headers, rows, columns, col_map, ti, err, conn, buf, tx, table,
                   committed, readback>>

\* conn = get_conn(): psycopg2.connect returns a connection or raises
GetConn ==
    /\ pc = "get_conn"
    /\ \E ok \in BOOLEAN :
         IF ok
         THEN /\ conn' = "open"
              /\ pc' = "to_csv"
              /\ err' = err
         ELSE /\ Raise("OperationalError")
              /\ conn' = conn
    /\ UNCHANGED <<headers, rows, columns, col_map, ti, out, buf, tx, table, committed,
                   readback>>

\* df.to_csv(buf, ...); buf.seek(0)
ToCsv ==
    /\ pc = "to_csv"
    /\ buf' = ToCsvLines(out)
    /\ pc' = "copy"
    /\ UNCHANGED <<headers, rows, columns, col_map, ti, out, err, conn, tx, table,
                   committed, readback>>

\* a faulty variant of CopyExpert: the error of COPY is swallowed and the run goes on
\* to commit
CopyExpertSwallow ==
    /\ pc = "copy"
    /\ \E k \in 0..(Len(buf) - 1), ok \in BOOLEAN :
         LET rws == CopyRows(buf)
             good == Loadable(rws)
         IN IF ok /\ good = Len(rws)
            THEN /\ tx' = rws
                 /\ pc' = "commit"
                 /\ err' = err
            ELSE /\ tx' = SubSeq(rws, 1, Min(k, good))
                 /\ err' = "CopyError"
                 /\ pc' = "commit"
    /\ UNCHANGED <<headers, rows, columns, col_map, ti, out, conn, buf, table, committed,
                   readback>>

\* with conn.cursor() as cur: cur.copy_expert(sql, buf): the rows are written
\* in the open transaction; the store rejects a row, or the connection is
\* lost, after any number of rows, and copy_expert raises
CopyExpert ==
    /\ pc = "copy"
    /\ \E k \in 0..(Len(buf) - 1), ok \in BOOLEAN :
         LET rws == CopyRows(buf)
             good == Loadable(rws)
         IN IF ok /\ good = Len(rws)
            THEN /\ tx' = rws
                 /\ pc' = "commit"
                 /\ err' = err
            ELSE /\ tx' = SubSeq(rws, 1, Min(k, good))
                 /\ err' = "CopyError"
                 /\ pc' = "close"
    /\ UNCHANGED <<headers, rows, columns, col_map, ti, out, conn, buf, table, committed,
                   readback>>

\* conn.commit(): the pending rows become the table's, or commit raises
Commit ==
    /\ pc = "commit"
    /\ \E ok \in BOOLEAN :
         IF ok
         THEN /\ table' = table \o tx
              /\ tx' = <<>>
              /\ committed' = TRUE
              /\ err' = err
         ELSE /\ err' = "CommitError"
              /\ UNCHANGED <<table, tx, committed>>
    /\ pc' = "close"
    /\ UNCHANGED <<headers, rows, columns, col_map, ti, out, conn, buf, readback>>

\* a faulty variant of Close: conn.close() is reached only when nothing was raised
CloseOnSuccess ==
    /\ pc = "close"
    /\ conn' = IF err = "none" THEN "closed" ELSE conn
    /\ tx' = IF err = "none" THEN <<>> ELSE tx
    /\ pc' = "done"
    /\ UNCHANGED <<headers, rows, columns, col_map, ti, out, err, buf, table, committed,
                   readback>>

\* finally: conn.close(): what the transaction has pending is discarded
Close ==
    /\ pc = "close"
    /\ conn' = "closed"
    /\ tx' = <<>>
    /\ pc' = "done"
    /\ UNCHANGED <<headers, rows, columns, col_map, ti, out, err, buf, table, committed,
                   readback>>

\* the read path, list_trp: every row of the table through row_to_dict, in
\* the order of insertion
ReadBack ==
    /\ pc = "done"
    /\ readback' = [i \in 1..Len(table) |-> row_to_dict(table[i])]
    /\ pc' = "read"
    /\ UNCHANGED <<headers, rows, columns, col_map, ti, out, err, conn, buf, tx, table,
                   committed>>

Next ==
    \/ NormalizeCols
    \/ MapTarget
    \/ BuildOut
    \/ ParseDates
    \/ ToInts
    \/ ToDecimals
    \/ CleanText
    \/ GetConn
    \/ ToCsv
    \/ CopyExpert
    \/ Commit
    \/ Close
    \/ ReadBack

SpecNorm == InitNorm /\ [][Next]_vars

SpecMap == InitMap /\ [][Next]_vars

SpecLoad == InitLoad /\ [][Next]_vars

\* ------------------------------------------------------------------ claims
\* target i has been through the mapper's loop
Mapped(i) == (pc = "map" /\ i < ti) \/ pc \notin {"normalize", "map"}

\* map_dataframe has returned
Returned == pc \in {"get_conn", "to_csv", "copy", "commit", "close"} \/ conn # "none"

Minimum(S) == CHOOSE x \in S : \A y \in S : x <= y

\* C1: when COPY fails, commit is not issued and the table holds the rows it
\* held before the run; at no time does the table hold anything but the rows
\* it held before, or those and the whole batch.
C1_AllOrNothing ==
    /\ err = "CopyError" => pc # "commit" /\ ~committed /\ table = ExistingRows
    /\ table = ExistingRows \/ (committed /\ table = ExistingRows \o CopyRows(buf))

\* a COPY that failed with some, not all, rows of the batch written
C1_Witness ==
    /\ pc = "close"
    /\ err = "CopyError"
    /\ tx # <<>>
    /\ Len(tx) < Len(CopyRows(buf))
    /\ table = ExistingRows

\* C2: the table map_dataframe returns has as many rows as the sheet read.
C2_RowCount ==
    Returned => out.n = Len(rows) /\ \A j \in 1..NCols : Len(out.cols[j]) = Len(rows)

\* C3: map_dataframe does not raise because of what a cell holds, and every
\* cell of the table it returns is of its column's type, or absent.
C3_NeverRaises ==
    /\ err \notin {"TypeError", "ValueError"}
    /\ Returned =>
         \A j \in 1..NCols : \A i \in 1..Len(out.cols[j]) :
            out.cols[j][i].k \in
               {"absent",
                IF j \in DateCols THEN "date"
                ELSE IF j \in IntCols THEN "int"
                ELSE IF j \in DecCols THEN "dec" ELSE "text"}

\* C4: a target column the mapper left unmapped is absent in every row of the
\* table map_dataframe returns.
C4_UnmappedAbsent ==
    Returned =>
       \A j \in 1..NCols :
          TARGET_COLS[j] \notin DOMAIN col_map =>
             \A i \in 1..Len(out.cols[j]) : out.cols[j][i].k = "absent"

\* C5: a target column that equals a normalized header is mapped to itself,
\* wherever that header stands and whatever header stands before it.
C5_ExactWins ==
    \A i \in 1..NCols :
       Mapped(i) /\ (\E j \in 1..Len(columns) : columns[j] = TARGET_COLS[i]) =>
          /\ TARGET_COLS[i] \in DOMAIN col_map
          /\ col_map[TARGET_COLS[i]] = TARGET_COLS[i]

\* a target mapped to itself although an earlier header matches approximately
C5_Witness ==
    /\ pc = "build"
    /\ \E t \in DOMAIN col_map :
          /\ col_map[t] = t
          /\ \E j, x \in 1..Len(columns) :
                j < x /\ columns[x] = t /\ columns[j] # t /\ ApproxMatch(t, columns[j])

\* the four predicates of the approximate match, as the specification lists them
C6_Candidate(t, c) ==
    \/ \E i \in 0..(Len(c) - Len(t)) : SubSeq(c, i + 1, i + Len(t)) = t
    \/ \E i \in 0..(Len(t) - Len(c)) : SubSeq(t, i + 1, i + Len(c)) = c
    \/ IsIn(SplitFirst(t), c)
    \/ IsIn(SplitLast(t), c)

\* C6: a target column with no exact match is mapped to the first header, in
\* column order, that satisfies one of the four predicates, and is left
\* unmapped when no header does.
C6_FirstApprox ==
    \A i \in 1..NCols :
       Mapped(i) /\ (\A j \in 1..Len(columns) : columns[j] # TARGET_COLS[i]) =>
          LET t == TARGET_COLS[i]
              S == {j \in 1..Len(columns) : C6_Candidate(t, columns[j])}
          IN IF S = {} THEN t \notin DOMAIN col_map
             ELSE t \in DOMAIN col_map /\ col_map[t] = columns[Minimum(S)]

\* among the headers price, Unit Price, Qty: selling_price has two candidates
\* and day has none
C6_Witness ==
    /\ pc = "build"
    /\ columns = << <<"p", "r", "i", "c", "e">>,
                    <<"u", "n", "i", "t", "_", "p", "r", "i", "c", "e">>,
                    <<"q", "t", "y">> >>
    /\ TARGET_COLS[8] \in DOMAIN col_map
    /\ TARGET_COLS[3] \notin DOMAIN col_map

\* C7: every cell of the table map_dataframe returned reads back, after the
\* load, as its own value when it is present and as null when it is absent.
C7_RoundTrip ==
    pc = "read" /\ committed =>
       \A j \in 1..NCols : \A i \in 1..out.n :
          LET c == out.cols[j][i]
              r == readback[Len(ExistingRows) + i][j]
          IN IF c.k = "absent" THEN r.k = "null"
             ELSE IF c.k = "text" THEN r.k = "text" /\ r.s = c.s
             ELSE IF c.k = "int" THEN r.k = "int" /\ r.n = c.n
             ELSE IF c.k = "dec" THEN r.k = "float" /\ r.n = c.n
             ELSE r.k = "text" /\ r.s = IsoFormat(c.n)

\* C8: when the run has ended with a connection acquired, the connection is
\* closed, nothing is left pending, and without a commit the table is as before.
C8_Released ==
    pc \in {"done", "read"} /\ conn # "none" =>
       /\ conn = "closed"
       /\ tx = <<>>
       /\ ~committed => table = ExistingRows

\* a run that ended on a failed commit, the connection closed
C8_Witness ==
    /\ pc = "done"
    /\ err = "CommitError"
    /\ conn = "closed"
    /\ Len(buf) > 1

\* C9: normalizing the normalized headers gives them back.
C9_Idempotent == pc # "normalize" => normalize_cols(columns) = columns

\* a header with a run of blanks and a capital, normalized
C9_Witness ==
    /\ pc = "map"
    /\ headers = << <<"a", " ", "\t", "B">> >>
    /\ columns = << <<"a", "_", "b">> >>

\* C10: each step of the mapper keeps every entry col_map has, and gives the
\* target it handles what that target alone gets from the headers, whatever
\* the other targets were mapped to.
C10_NoConflictDetection ==
    [][/\ \A t \in DOMAIN col_map : t \in DOMAIN col_map' /\ col_map'[t] = col_map[t]
       /\ pc = "map" =>
            LET t == TARGET_COLS[ti]
                r == MapOne(t, columns)
            IN IF r.found THEN t \in DOMAIN col_map' /\ col_map'[t] = r.c
               ELSE t \notin DOMAIN col_map']_vars

\* the lone header price is the source of three target columns
C10_Witness ==
    /\ pc = "build"
    /\ columns = << <<"p", "r", "i", "c", "e">> >>
    /\ \A i \in {7, 8, 10} :
          TARGET_COLS[i] \in DOMAIN col_map /\ col_map[TARGET_COLS[i]] = columns[1]

=============================================================================
